---- MODULE Spec2Model ----
(***************************************************************************)
(* Approval workflow of the campus management backend: room bookings      *)
(* (request_room, coordinator_action, hod_action) and student leaves      *)
(* (apply_leave, coordinator_leave_action) of accounts/views.py, over the *)
(* records of accounts/models.py.                                          *)
(***************************************************************************)
EXTENDS Integers, Sequences, FiniteSets, TLC

\* ------------------------------------------------------------------------
\* Bounds of the model
\* ------------------------------------------------------------------------
MaxBookings == 2    \* RoomBooking rows ever created
MaxLeaves == 2      \* StudentLeave rows ever created
MaxTime == 2        \* start_time / end_time range over 0..MaxTime
MaxDate == 1        \* booking_date ranges over 1..MaxDate
MaxDay == 2         \* from_date / to_date range over 1..MaxDay
MaxClock == 2       \* now() ranges over 0..MaxClock
MaxRecords == 2     \* rows of both tables together (SpecWorkflow)
MaxLogDate == 2     \* booking_date ranges over 1..MaxLogDate (SpecBookingLists)
MaxWorkers == 2     \* requests handled at the same time (SpecConc)
MaxRequests == 3    \* requests the workers take up in one behaviour (SpecConc)

\* Python's None / SQL NULL
None == "None"

\* a NULL decision_at: a value that no reading of the clock takes
NoTime == -1

VARIABLES
    User,       \* User rows: username -> [role]
    Teacher,    \* Teacher rows (user.teacher_profile): username -> row
    students,   \* Student rows: user -> [roll_number, course, semester, division]
    divisions,  \* ids of the Division rows in the database
    bookings,   \* RoomBooking table: sequence of rows, the id is the index
    leaves,     \* StudentLeave table: sequence of rows, the id is the index
    clock,      \* django.utils.timezone.now()
    resp,       \* the Response returned by the last request handled
    inflight,   \* per worker, the request it is in the middle of (SpecConc)
    requests    \* number of requests the workers have taken up (SpecConc)

vars == <<User, Teacher, students, divisions, bookings, leaves, clock, resp, inflight, requests>>

\* ------------------------------------------------------------------------
\* Directory: users, teacher profiles, divisions, rooms
\*
\* The directory is the one registration leaves when it succeeds: every
\* teacher user has a Teacher row that satisfies Teacher.clean and every
\* student user a Student row.  Requests carry every field the handlers read
\* (request.data["purpose"] and the like are present), so the KeyError and
\* RelatedObjectDoesNotExist paths of the handlers are not taken.
\* ------------------------------------------------------------------------
\* User.role of the users registered at the start
InitialUser ==
    [ admin |-> [role |-> "admin"],
      stuA  |-> [role |-> "student"],
      tchA  |-> [role |-> "teacher"],
      tchB  |-> [role |-> "teacher"],
      tch   |-> [role |-> "teacher"] ]

Users == DOMAIN User

\* a NULL coordinator_semester: a value outside SEMESTER_CHOICES, which
\* Teacher.clean treats like None
NoSemester == 0

\* the Teacher rows at the start; every row satisfies Teacher.clean
InitialTeacher ==
    [ tchA |-> [ is_batch_coordinator |-> TRUE, coordinator_course |-> "MCA",
                 coordinator_semester |-> 1, coordinator_division |-> "A",
                 is_hod |-> TRUE, hod_course |-> "MCA" ],
      tchB |-> [ is_batch_coordinator |-> TRUE, coordinator_course |-> "MMS",
                 coordinator_semester |-> 1, coordinator_division |-> "B",
                 is_hod |-> TRUE, hod_course |-> "MMS" ],
      tch  |-> [ is_batch_coordinator |-> FALSE, coordinator_course |-> None,
                 coordinator_semester |-> NoSemester, coordinator_division |-> None,
                 is_hod |-> FALSE, hod_course |-> None ] ]

\* Division rows a database can hold, keyed by a row id; the variable
\* divisions holds the ids of the rows that exist
Division ==
    [ MCA1A |-> [course |-> "MCA", semester |-> 1, division |-> "A"],
      MMS1B |-> [course |-> "MMS", semester |-> 1, division |-> "B"],
      MCA2A |-> [course |-> "MCA", semester |-> 2, division |-> "A"],
      BCA1A |-> [course |-> "BCA", semester |-> 1, division |-> "A"] ]

\* the Student rows of the initial database
InitialStudents ==
    [ stuA |-> [roll_number |-> "R1", course |-> "MCA", semester |-> 1, division |-> "MCA1A"] ]

\* the Division rows of the initial database
InitialDivisions == {"MCA1A", "MMS1B"}

\* ids of the Room rows; RoomIds are the ids a request may carry
Room == {1}
RoomIds == {1, 2}

\* the users whose requests the model enumerates for request_room
Requesters == {"admin", "stuA", "tch"}

\* request.data.get("action"): the two tokens and an unrecognised one
Actions == {"approve", "reject", "cancel"}

\* request.data.get("remark", "")
Remarks == {"", "ok"}

\* end_time ranges over Times, start_time over the times that leave room for
\* an end after them; the pairs include end_time <= start_time
Times == 0 .. MaxTime
StartTimes == 0 .. MaxTime - 1
Dates == 1 .. MaxDate
Days == 1 .. MaxDay
BookingIds == 1 .. MaxBookings
LeaveIds == 1 .. MaxLeaves

Workers == 1 .. MaxWorkers

\* a worker between two requests
Idle == [pc |-> "idle"]

\* rest_framework Response(body, status)
Response(status, body) == [status |-> status, body |-> body]

\* ------------------------------------------------------------------------
\* Rows
\* ------------------------------------------------------------------------
\* RoomBooking.objects.create(...) without status=: the model's default status
RoomBooking_default_status(room, requested_by, division, booking_date, start_time, end_time, status) ==
    [ room |-> room, requested_by |-> requested_by, division |-> division,
      booking_date |-> booking_date, start_time |-> start_time,
      end_time |-> end_time, status |-> "PENDING_COORDINATOR",
      coordinator_approved |-> FALSE, hod_approved |-> FALSE ]

\* RoomBooking.objects.create(...) without division=: the column's NULL
RoomBooking_no_division(room, requested_by, division, booking_date, start_time, end_time, status) ==
    [ room |-> room, requested_by |-> requested_by, division |-> None,
      booking_date |-> booking_date, start_time |-> start_time,
      end_time |-> end_time, status |-> status,
      coordinator_approved |-> FALSE, hod_approved |-> FALSE ]

\* RoomBooking.objects.create(...): coordinator_approved and hod_approved take
\* the model's defaults
RoomBooking(room, requested_by, division, booking_date, start_time, end_time, status) ==
    [ room |-> room, requested_by |-> requested_by, division |-> division,
      booking_date |-> booking_date, start_time |-> start_time,
      end_time |-> end_time, status |-> status,
      coordinator_approved |-> FALSE, hod_approved |-> FALSE ]

\* StudentLeave(...) with a status default of APPROVED
StudentLeave_approved(student, division, from_date, to_date) ==
    [ student |-> student, division |-> division,
      from_date |-> from_date, to_date |-> to_date,
      status |-> "APPROVED", coordinator_remark |-> None, decision_at |-> NoTime ]

\* StudentLeave(...): status, coordinator_remark and decision_at take the
\* model's defaults
StudentLeave(student, division, from_date, to_date) ==
    [ student |-> student, division |-> division,
      from_date |-> from_date, to_date |-> to_date,
      status |-> "PENDING", coordinator_remark |-> None, decision_at |-> NoTime ]

\* ------------------------------------------------------------------------
\* Room booking: request
\* ------------------------------------------------------------------------
\* the clash filter with closed intervals (start_time__lte, end_time__gte)
clash_exists_closed(table, room, booking_date, start_time, end_time) ==
    \E i \in DOMAIN table :
        /\ table[i].room = room
        /\ table[i].booking_date = booking_date
        /\ table[i].status = "APPROVED"
        /\ table[i].start_time <= end_time
        /\ table[i].end_time >= start_time

\* RoomBooking.objects.filter(room=, booking_date=, status="APPROVED",
\*     start_time__lt=end_time, end_time__gt=start_time).exists()
clash_exists(table, room, booking_date, start_time, end_time) ==
    \E i \in DOMAIN table :
        /\ table[i].room = room
        /\ table[i].booking_date = booking_date
        /\ table[i].status = "APPROVED"
        /\ table[i].start_time < end_time
        /\ table[i].end_time > start_time

\* request_room, the whole handler, as the Response it returns and the
\* RoomBooking table it leaves: room lookup, clash check, then the branch on
\* user.role
request_room_result(user, room_id, booking_date, start_time, end_time) ==
    IF room_id \notin Room
    THEN [ resp |-> Response(404, "Room not found"), bookings |-> bookings ]
    ELSE IF clash_exists(bookings, room_id, booking_date, start_time, end_time)
    THEN [ resp |-> Response(400, "Room already booked for the selected date and time"),
           bookings |-> bookings ]
    ELSE IF User[user].role = "student"
    THEN [ resp |-> Response(201, "Room request sent to Batch Coordinator"),
           bookings |-> Append(bookings,
               RoomBooking(room_id, user, students[user].division,
                           booking_date, start_time, end_time,
                           "PENDING_COORDINATOR")) ]
    ELSE IF User[user].role = "teacher"
    THEN [ resp |-> Response(201, "Room request sent to HOD"),
           bookings |-> Append(bookings,
               RoomBooking(room_id, user, None,
                           booking_date, start_time, end_time,
                           "PENDING_HOD")) ]
    ELSE [ resp |-> Response(400, "Invalid role"), bookings |-> bookings ]

\* a request handled by request_room; the table holds at most MaxBookings rows
request_room(user, room_id, booking_date, start_time, end_time) ==
    LET result == request_room_result(user, room_id, booking_date, start_time, end_time)
    IN  /\ Len(result.bookings) <= MaxBookings
        /\ resp' = result.resp
        /\ bookings' = result.bookings
        /\ UNCHANGED <<User, Teacher, students, divisions, leaves, clock, inflight, requests>>

\* ------------------------------------------------------------------------
\* Room booking: decisions
\* ------------------------------------------------------------------------
\* the row of coordinator_action without the coordinator_approved assignment
coordinator_decision_unflagged(booking, action) ==
    IF action = "approve"
    THEN [booking EXCEPT !.status = "PENDING_HOD"]
    ELSE [booking EXCEPT !.status = "REJECTED"]

\* the row coordinator_action holds when it calls booking.save()
coordinator_decision(booking, action) ==
    IF action = "approve"
    THEN [booking EXCEPT !.status = "PENDING_HOD", !.coordinator_approved = TRUE]
    ELSE [booking EXCEPT !.status = "REJECTED"]

\* the row of hod_action without the hod_approved assignment
hod_decision_unflagged(booking, action) ==
    IF action = "approve"
    THEN [booking EXCEPT !.status = "APPROVED"]
    ELSE [booking EXCEPT !.status = "REJECTED"]

\* the row hod_action holds when it calls booking.save()
hod_decision(booking, action) ==
    IF action = "approve"
    THEN [booking EXCEPT !.status = "APPROVED", !.hod_approved = TRUE]
    ELSE [booking EXCEPT !.status = "REJECTED"]

\* the gate of the coordinator endpoints checking the role only
is_coordinator_any_teacher(user) ==
    ~(User[user].role # "teacher")

\* the role gate of coordinator_action, coordinator_requests,
\* coordinator_leave_requests and coordinator_leave_action
is_coordinator(user) ==
    ~(User[user].role # "teacher" \/ ~Teacher[user].is_batch_coordinator)

\* the role gate of hod_action and hod_requests
is_hod(user) ==
    ~(User[user].role # "teacher" \/ ~Teacher[user].is_hod)

\* coordinator_action writing with filter(id=).update(...), which raises
\* nothing when no row has the id
coordinator_action_result_update(user, booking_id, action) ==
    IF ~is_coordinator(user)
    THEN [ resp |-> Response(403, "Unauthorized"), bookings |-> bookings ]
    ELSE IF action \in {"approve", "reject"}
    THEN [ resp |-> Response(200, "Action completed"),
           bookings |-> [id \in DOMAIN bookings |->
               IF id = booking_id
               THEN coordinator_decision(bookings[id], action)
               ELSE bookings[id]] ]
    ELSE [ resp |-> Response(400, "Invalid action"), bookings |-> bookings ]

\* coordinator_action, the whole handler, as the Response it returns and the
\* RoomBooking table it leaves
coordinator_action_result(user, booking_id, action) ==
    IF ~is_coordinator(user)
    THEN [ resp |-> Response(403, "Unauthorized"), bookings |-> bookings ]
    ELSE IF booking_id \notin DOMAIN bookings
    THEN [ resp |-> Response(404, "Booking not found"), bookings |-> bookings ]
    ELSE IF action \in {"approve", "reject"}
    THEN [ resp |-> Response(200, "Action completed"),
           bookings |-> [bookings EXCEPT
               ![booking_id] = coordinator_decision(bookings[booking_id], action)] ]
    ELSE [ resp |-> Response(400, "Invalid action"), bookings |-> bookings ]

\* a request handled by coordinator_action
coordinator_action(user, booking_id, action) ==
    LET result == coordinator_action_result(user, booking_id, action)
    IN  /\ resp' = result.resp
        /\ bookings' = result.bookings
        /\ UNCHANGED <<User, Teacher, students, divisions, leaves, clock, inflight, requests>>

\* hod_action with a plain else for the reject branch
hod_action_result_else_reject(user, booking_id, action) ==
    IF ~is_hod(user)
    THEN [ resp |-> Response(403, "Only HOD allowed"), bookings |-> bookings ]
    ELSE IF booking_id \notin DOMAIN bookings
    THEN [ resp |-> Response(404, "Booking not found"), bookings |-> bookings ]
    ELSE [ resp |-> Response(200, "Final decision recorded"),
           bookings |-> [bookings EXCEPT
               ![booking_id] = hod_decision(bookings[booking_id], action)] ]

\* hod_action, the whole handler, as the Response it returns and the
\* RoomBooking table it leaves
hod_action_result(user, booking_id, action) ==
    IF ~is_hod(user)
    THEN [ resp |-> Response(403, "Only HOD allowed"), bookings |-> bookings ]
    ELSE IF booking_id \notin DOMAIN bookings
    THEN [ resp |-> Response(404, "Booking not found"), bookings |-> bookings ]
    ELSE IF action \in {"approve", "reject"}
    THEN [ resp |-> Response(200, "Final decision recorded"),
           bookings |-> [bookings EXCEPT
               ![booking_id] = hod_decision(bookings[booking_id], action)] ]
    ELSE [ resp |-> Response(400, "Invalid action"), bookings |-> bookings ]

\* a request handled by hod_action
hod_action(user, booking_id, action) ==
    LET result == hod_action_result(user, booking_id, action)
    IN  /\ resp' = result.resp
        /\ bookings' = result.bookings
        /\ UNCHANGED <<User, Teacher, students, divisions, leaves, clock, inflight, requests>>

\* ------------------------------------------------------------------------
\* Specification of the booking workflow, one request handled at a time
\* ------------------------------------------------------------------------
Init ==
    /\ User = InitialUser
    /\ Teacher = InitialTeacher
    /\ students = InitialStudents
    /\ divisions = InitialDivisions
    /\ bookings = <<>>
    /\ leaves = <<>>
    /\ clock = 0
    /\ resp = Response(0, None)
    /\ inflight = [w \in Workers |-> Idle]
    /\ requests = 0

RequestRoom ==
    \E user \in Requesters, room_id \in RoomIds, booking_date \in Dates,
       start_time \in StartTimes, end_time \in Times :
        request_room(user, room_id, booking_date, start_time, end_time)

CoordinatorAction ==
    \E user \in Users, booking_id \in BookingIds, action \in Actions :
        coordinator_action(user, booking_id, action)

HodAction ==
    \E user \in Users, booking_id \in BookingIds, action \in Actions :
        hod_action(user, booking_id, action)

NextBooking == RequestRoom \/ CoordinatorAction \/ HodAction

SpecBooking == Init /\ [][NextBooking]_vars

\* ------------------------------------------------------------------------
\* Student leave
\* ------------------------------------------------------------------------
\* StudentLeave.clean raising on to_date <= from_date
StudentLeave_clean_raises_strict(leave) == leave.to_date <= leave.from_date

\* StudentLeave.clean, called by leave.full_clean(): TRUE when it raises
StudentLeave_clean_raises(leave) == leave.to_date < leave.from_date

\* apply_leave, the whole handler, as the Response it returns and the
\* StudentLeave table it leaves
apply_leave_result(user, from_date, to_date) ==
    IF User[user].role # "student"
    THEN [ resp |-> Response(403, "Only students can apply leave"), leaves |-> leaves ]
    ELSE LET leave == StudentLeave(user, students[user].division, from_date, to_date)
         IN  IF StudentLeave_clean_raises(leave)
             THEN [ resp |-> Response(400, "To date cannot be before From date."),
                    leaves |-> leaves ]
             ELSE [ resp |-> Response(201, "Leave request sent to Batch Coordinator"),
                    leaves |-> Append(leaves, leave) ]

\* a request handled by apply_leave; the table holds at most MaxLeaves rows
apply_leave(user, from_date, to_date) ==
    LET result == apply_leave_result(user, from_date, to_date)
    IN  /\ Len(result.leaves) <= MaxLeaves
        /\ resp' = result.resp
        /\ leaves' = result.leaves
        /\ UNCHANGED <<User, Teacher, students, divisions, bookings, clock, inflight, requests>>

\* the row of coordinator_leave_action with the action token as the status
leave_decision_raw(leave, action, remark, now) ==
    [leave EXCEPT !.status = action,
                  !.coordinator_remark = remark,
                  !.decision_at = now]

\* the row of coordinator_leave_action without the decision_at assignment
leave_decision_undated(leave, action, remark, now) ==
    [leave EXCEPT !.status = IF action = "approve" THEN "APPROVED" ELSE "REJECTED",
                  !.coordinator_remark = remark]

\* the row coordinator_leave_action holds when it calls leave.save()
leave_decision(leave, action, remark, now) ==
    [leave EXCEPT !.status = IF action = "approve" THEN "APPROVED" ELSE "REJECTED",
                  !.coordinator_remark = remark,
                  !.decision_at = now]

\* coordinator_leave_action, the whole handler, as the Response it returns
\* and the StudentLeave table it leaves
coordinator_leave_action_result(user, leave_id, action, remark) ==
    IF ~is_coordinator(user)
    THEN [ resp |-> Response(403, "Unauthorized"), leaves |-> leaves ]
    ELSE IF leave_id \notin DOMAIN leaves
    THEN [ resp |-> Response(404, "Leave not found"), leaves |-> leaves ]
    ELSE IF action \in {"approve", "reject"}
    THEN [ resp |-> Response(200, "Leave decision recorded"),
           leaves |-> [leaves EXCEPT
               ![leave_id] = leave_decision(leaves[leave_id], action, remark, clock)] ]
    ELSE [ resp |-> Response(400, "Invalid action"), leaves |-> leaves ]

\* a request handled by coordinator_leave_action
coordinator_leave_action(user, leave_id, action, remark) ==
    LET result == coordinator_leave_action_result(user, leave_id, action, remark)
    IN  /\ resp' = result.resp
        /\ leaves' = result.leaves
        /\ UNCHANGED <<User, Teacher, students, divisions, bookings, clock, inflight, requests>>

\* time passes between requests
Tick ==
    /\ clock < MaxClock
    /\ clock' = clock + 1
    /\ UNCHANGED <<User, Teacher, students, divisions, bookings, leaves, resp, inflight, requests>>

ApplyLeave ==
    \E user \in Users, from_date \in Days, to_date \in Days :
        apply_leave(user, from_date, to_date)

CoordinatorLeaveAction ==
    \E user \in Users, leave_id \in LeaveIds, action \in Actions, remark \in Remarks :
        coordinator_leave_action(user, leave_id, action, remark)

NextLeave == ApplyLeave \/ CoordinatorLeaveAction \/ Tick

SpecLeave == Init /\ [][NextLeave]_vars

\* ------------------------------------------------------------------------
\* The handlers statement by statement.  settings.py sets no ATOMIC_REQUESTS
\* and the views open no transaction and take no lock, so each ORM call
\* (get, filter(...).exists(), create, save) is a database statement of its
\* own, and the statements of requests handled at the same time interleave.
\* A worker is idle, or between the read and the write of one request.
\* ------------------------------------------------------------------------
\* rows that workers between check and create are about to insert
pending_creates == Cardinality({w \in Workers : inflight[w].pc = "create"})

\* request_room up to and including the clash check
request_room_check(w, user, room_id, booking_date, start_time, end_time) ==
    /\ inflight[w].pc = "idle"
    /\ requests < MaxRequests
    /\ requests' = requests + 1
    /\ UNCHANGED <<User, Teacher, students, divisions, bookings, leaves, clock>>
    /\ IF room_id \notin Room
       THEN /\ resp' = Response(404, "Room not found")
            /\ UNCHANGED inflight
       ELSE IF clash_exists(bookings, room_id, booking_date, start_time, end_time)
       THEN /\ resp' = Response(400, "Room already booked for the selected date and time")
            /\ UNCHANGED inflight
       ELSE /\ Len(bookings) + pending_creates < MaxBookings
            /\ inflight' = [inflight EXCEPT ![w] =
                   [ pc |-> "create", op |-> "request_room", user |-> user,
                     room |-> room_id, booking_date |-> booking_date,
                     start_time |-> start_time, end_time |-> end_time ]]
            /\ UNCHANGED resp

\* request_room from the branch on user.role: RoomBooking.objects.create
request_room_create(w) ==
    LET r == inflight[w] IN
    /\ r.pc = "create"
    /\ inflight' = [inflight EXCEPT ![w] = Idle]
    /\ UNCHANGED <<User, Teacher, students, divisions, leaves, clock, requests>>
    /\ IF User[r.user].role = "student"
       THEN /\ bookings' = Append(bookings,
                   RoomBooking(r.room, r.user, students[r.user].division,
                               r.booking_date, r.start_time, r.end_time,
                               "PENDING_COORDINATOR"))
            /\ resp' = Response(201, "Room request sent to Batch Coordinator")
       ELSE IF User[r.user].role = "teacher"
       THEN /\ bookings' = Append(bookings,
                   RoomBooking(r.room, r.user, None,
                               r.booking_date, r.start_time, r.end_time,
                               "PENDING_HOD"))
            /\ resp' = Response(201, "Room request sent to HOD")
       ELSE /\ resp' = Response(400, "Invalid role")
            /\ UNCHANGED bookings

\* coordinator_action up to booking.save(): the gate, RoomBooking.objects.get
\* and the assignments to the instance in memory.  read is the row as it was
\* read, row the instance that save() will write.
coordinator_action_get(w, user, booking_id, action) ==
    /\ inflight[w].pc = "idle"
    /\ requests < MaxRequests
    /\ requests' = requests + 1
    /\ UNCHANGED <<User, Teacher, students, divisions, bookings, leaves, clock>>
    /\ IF ~is_coordinator(user)
       THEN /\ resp' = Response(403, "Unauthorized")
            /\ UNCHANGED inflight
       ELSE IF booking_id \notin DOMAIN bookings
       THEN /\ resp' = Response(404, "Booking not found")
            /\ UNCHANGED inflight
       ELSE IF action \in {"approve", "reject"}
       THEN /\ inflight' = [inflight EXCEPT ![w] =
                   [ pc |-> "save", op |-> "coordinator_action", id |-> booking_id,
                     read |-> bookings[booking_id],
                     row |-> coordinator_decision(bookings[booking_id], action) ]]
            /\ UNCHANGED resp
       ELSE /\ resp' = Response(400, "Invalid action")
            /\ UNCHANGED inflight

\* hod_action up to booking.save()
hod_action_get(w, user, booking_id, action) ==
    /\ inflight[w].pc = "idle"
    /\ requests < MaxRequests
    /\ requests' = requests + 1
    /\ UNCHANGED <<User, Teacher, students, divisions, bookings, leaves, clock>>
    /\ IF ~is_hod(user)
       THEN /\ resp' = Response(403, "Only HOD allowed")
            /\ UNCHANGED inflight
       ELSE IF booking_id \notin DOMAIN bookings
       THEN /\ resp' = Response(404, "Booking not found")
            /\ UNCHANGED inflight
       ELSE IF action \in {"approve", "reject"}
       THEN /\ inflight' = [inflight EXCEPT ![w] =
                   [ pc |-> "save", op |-> "hod_action", id |-> booking_id,
                     read |-> bookings[booking_id],
                     row |-> hod_decision(bookings[booking_id], action) ]]
            /\ UNCHANGED resp
       ELSE /\ resp' = Response(400, "Invalid action")
            /\ UNCHANGED inflight

\* booking.save() of coordinator_action and hod_action: an UPDATE of every
\* column of the row from the instance in memory
booking_save(w) ==
    LET r == inflight[w] IN
    /\ r.pc = "save"
    /\ r.op \in {"coordinator_action", "hod_action"}
    /\ bookings' = [bookings EXCEPT ![r.id] = r.row]
    /\ resp' = IF r.op = "coordinator_action"
               THEN Response(200, "Action completed")
               ELSE Response(200, "Final decision recorded")
    /\ inflight' = [inflight EXCEPT ![w] = Idle]
    /\ UNCHANGED <<User, Teacher, students, divisions, leaves, clock, requests>>

\* coordinator_leave_action up to leave.save()
coordinator_leave_action_get(w, user, leave_id, action, remark) ==
    /\ inflight[w].pc = "idle"
    /\ requests < MaxRequests
    /\ requests' = requests + 1
    /\ UNCHANGED <<User, Teacher, students, divisions, bookings, leaves, clock>>
    /\ IF ~is_coordinator(user)
       THEN /\ resp' = Response(403, "Unauthorized")
            /\ UNCHANGED inflight
       ELSE IF leave_id \notin DOMAIN leaves
       THEN /\ resp' = Response(404, "Leave not found")
            /\ UNCHANGED inflight
       ELSE IF action \in {"approve", "reject"}
       THEN /\ inflight' = [inflight EXCEPT ![w] =
                   [ pc |-> "save", op |-> "coordinator_leave_action", id |-> leave_id,
                     read |-> leaves[leave_id],
                     row |-> leave_decision(leaves[leave_id], action, remark, clock) ]]
            /\ UNCHANGED resp
       ELSE /\ resp' = Response(400, "Invalid action")
            /\ UNCHANGED inflight

\* leave.save() of coordinator_leave_action
leave_save(w) ==
    LET r == inflight[w] IN
    /\ r.pc = "save"
    /\ r.op = "coordinator_leave_action"
    /\ leaves' = [leaves EXCEPT ![r.id] = r.row]
    /\ resp' = Response(200, "Leave decision recorded")
    /\ inflight' = [inflight EXCEPT ![w] = Idle]
    /\ UNCHANGED <<User, Teacher, students, divisions, bookings, clock, requests>>

\* the requests the concurrent specification enumerates: well-formed requests
\* of a student for one date, and decisions by the teachers who pass the gates
ConcRequestRoom ==
    \E w \in Workers, user \in {"stuA", "tch"},
       start_time \in StartTimes, end_time \in Times :
        /\ start_time < end_time
        /\ request_room_check(w, user, 1, 1, start_time, end_time)

ConcCreate == \E w \in Workers : request_room_create(w)

ConcCoordinatorGet ==
    \E w \in Workers, user \in {"tchA", "tchB"}, booking_id \in BookingIds,
       action \in {"approve", "reject"} :
        coordinator_action_get(w, user, booking_id, action)

ConcHodGet ==
    \E w \in Workers, user \in {"tchA", "tchB"}, booking_id \in BookingIds,
       action \in {"approve", "reject"} :
        hod_action_get(w, user, booking_id, action)

ConcBookingSave == \E w \in Workers : booking_save(w)

ConcApplyLeave == apply_leave("stuA", 1, 1)

ConcLeaveGet ==
    \E w \in Workers, user \in {"tchA", "tchB"}, leave_id \in LeaveIds,
       action \in {"approve", "reject"} :
        coordinator_leave_action_get(w, user, leave_id, action, "")

ConcLeaveSave == \E w \in Workers : leave_save(w)

NextConc ==
    \/ ConcRequestRoom \/ ConcCreate
    \/ ConcCoordinatorGet \/ ConcHodGet \/ ConcBookingSave
    \/ ConcApplyLeave \/ ConcLeaveGet \/ ConcLeaveSave

SpecConc == Init /\ [][NextConc]_vars

\* ------------------------------------------------------------------------
\* Specification of both workflows together, one request handled at a time:
\* the five state-changing endpoints over the two tables, which hold at most
\* MaxRecords rows between them; room requests are for one date and for the
\* ranges of length one
\* ------------------------------------------------------------------------
WorkflowRequestRoom ==
    /\ \E user \in Requesters, room_id \in RoomIds, start_time \in StartTimes :
           request_room(user, room_id, 1, start_time, start_time + 1)
    /\ Len(bookings') + Len(leaves) <= MaxRecords

WorkflowApplyLeave ==
    /\ ApplyLeave
    /\ Len(bookings) + Len(leaves') <= MaxRecords

NextWorkflow ==
    \/ WorkflowRequestRoom \/ CoordinatorAction \/ HodAction
    \/ WorkflowApplyLeave \/ CoordinatorLeaveAction

SpecWorkflow == Init /\ [][NextWorkflow]_vars

\* ------------------------------------------------------------------------
\* Listings: the pending lists of coordinator and HOD and the approved logs
\*
\* A listing answers 200 with a list; the model keeps, for each entry, the id
\* of the row it serialises.
\* ------------------------------------------------------------------------
\* rest_framework Response(data) for a list
Listing(data) == [status |-> 200, data |-> data]

\* the orders in which a queryset may yield the rows ids: each row once, no
\* row after one that sorts strictly after it, before being the pairs
\* <<a, b>> of which the order_by puts a strictly first; rows the order_by
\* does not separate come in any order
Orderings(ids, before) ==
    { q \in [1 .. Cardinality(ids) -> ids] :
        /\ \A i \in DOMAIN q, j \in DOMAIN q : i # j => q[i] # q[j]
        /\ \A i \in DOMAIN q, j \in DOMAIN q : i < j => <<q[j], q[i]>> \notin before }

\* a queryset without order_by
unordered == {}

\* coordinator_requests' filter without the three division__ conditions
coordinator_requests_filter_unscoped(user) ==
    { id \in DOMAIN bookings : bookings[id].status = "PENDING_COORDINATOR" }

\* RoomBooking.objects.filter(status="PENDING_COORDINATOR",
\*     division__course=, division__semester=, division__division=)
coordinator_requests_filter(user) ==
    { id \in DOMAIN bookings :
        /\ bookings[id].status = "PENDING_COORDINATOR"
        /\ bookings[id].division # None
        /\ Division[bookings[id].division].course = Teacher[user].coordinator_course
        /\ Division[bookings[id].division].semester = Teacher[user].coordinator_semester
        /\ Division[bookings[id].division].division = Teacher[user].coordinator_division }

\* coordinator_requests: the Responses it may return
coordinator_requests_results(user) ==
    IF ~is_coordinator(user)
    THEN { Response(403, "Unauthorized") }
    ELSE { Listing(q) : q \in Orderings(coordinator_requests_filter(user), unordered) }

\* a request handled by coordinator_requests
coordinator_requests(user) ==
    /\ resp' \in coordinator_requests_results(user)
    /\ UNCHANGED <<User, Teacher, students, divisions, bookings, leaves, clock, inflight, requests>>

\* RoomBooking.objects.filter(status="PENDING_HOD") and the loop that skips
\* the bookings of a division of another course
hod_requests_filter(user) ==
    { id \in DOMAIN bookings :
        /\ bookings[id].status = "PENDING_HOD"
        /\ ~( /\ bookings[id].division # None
              /\ Division[bookings[id].division].course # Teacher[user].hod_course ) }

\* hod_requests: the Responses it may return
hod_requests_results(user) ==
    IF ~is_hod(user)
    THEN { Response(403, "Only HOD allowed") }
    ELSE { Listing(q) : q \in Orderings(hod_requests_filter(user), unordered) }

\* a request handled by hod_requests
hod_requests(user) ==
    /\ resp' \in hod_requests_results(user)
    /\ UNCHANGED <<User, Teacher, students, divisions, bookings, leaves, clock, inflight, requests>>

\* RoomBooking.objects.filter(status="APPROVED")
room_booking_log_filter == { id \in DOMAIN bookings : bookings[id].status = "APPROVED" }

\* order_by('start_time') alone
room_booking_log_before_start_time(a, b) == bookings[a].start_time < bookings[b].start_time

\* order_by('booking_date', 'start_time')
room_booking_log_before(a, b) ==
    \/ bookings[a].booking_date < bookings[b].booking_date
    \/ /\ bookings[a].booking_date = bookings[b].booking_date
       /\ bookings[a].start_time < bookings[b].start_time

\* room_booking_log: the Responses it may return, to any authenticated user
room_booking_log_results(user) ==
    { Listing(q) : q \in Orderings(room_booking_log_filter,
          { <<a, b>> \in room_booking_log_filter \X room_booking_log_filter :
              room_booking_log_before(a, b) }) }

\* a request handled by room_booking_log
room_booking_log(user) ==
    /\ resp' \in room_booking_log_results(user)
    /\ UNCHANGED <<User, Teacher, students, divisions, bookings, leaves, clock, inflight, requests>>

\* coordinator_leave_requests' filter without status='PENDING'
coordinator_leave_requests_filter_any_status(user) ==
    { id \in DOMAIN leaves :
        /\ Division[leaves[id].division].course = Teacher[user].coordinator_course
        /\ Division[leaves[id].division].semester = Teacher[user].coordinator_semester
        /\ Division[leaves[id].division].division = Teacher[user].coordinator_division }

\* StudentLeave.objects.filter(status='PENDING', division__course=,
\*     division__semester=, division__division=)
coordinator_leave_requests_filter(user) ==
    { id \in DOMAIN leaves :
        /\ leaves[id].status = "PENDING"
        /\ Division[leaves[id].division].course = Teacher[user].coordinator_course
        /\ Division[leaves[id].division].semester = Teacher[user].coordinator_semester
        /\ Division[leaves[id].division].division = Teacher[user].coordinator_division }

\* coordinator_leave_requests: the Responses it may return
coordinator_leave_requests_results(user) ==
    IF ~is_coordinator(user)
    THEN { Response(403, "Unauthorized") }
    ELSE { Listing(q) : q \in Orderings(coordinator_leave_requests_filter(user), unordered) }

\* a request handled by coordinator_leave_requests
coordinator_leave_requests(user) ==
    /\ resp' \in coordinator_leave_requests_results(user)
    /\ UNCHANGED <<User, Teacher, students, divisions, bookings, leaves, clock, inflight, requests>>

\* StudentLeave.objects.filter(status="APPROVED")
leave_log_filter == { id \in DOMAIN leaves : leaves[id].status = "APPROVED" }

\* order_by('-decision_at')
leave_log_before(a, b) == leaves[a].decision_at > leaves[b].decision_at

\* leave_log: the Responses it may return
leave_log_results(user) ==
    IF User[user].role # "teacher"
       \/ ~(Teacher[user].is_batch_coordinator \/ Teacher[user].is_hod)
    THEN { Response(403, "Only Batch Coordinators or HOD can view leave log") }
    ELSE { Listing(q) : q \in Orderings(leave_log_filter,
          { <<a, b>> \in leave_log_filter \X leave_log_filter : leave_log_before(a, b) }) }

\* a request handled by leave_log
leave_log(user) ==
    /\ resp' \in leave_log_results(user)
    /\ UNCHANGED <<User, Teacher, students, divisions, bookings, leaves, clock, inflight, requests>>

\* the dates of the requests of SpecBookingLists
LogDates == 1 .. MaxLogDate

ListRequestRoom ==
    \E user \in {"stuA", "tch"}, booking_date \in LogDates, start_time \in StartTimes :
        request_room(user, 1, booking_date, start_time, start_time + 1)

CoordinatorRequests == \E user \in Users : coordinator_requests(user)

HodRequests == \E user \in Users : hod_requests(user)

RoomBookingLog == \E user \in Users : room_booking_log(user)

CoordinatorLeaveRequests == \E user \in Users : coordinator_leave_requests(user)

LeaveLog == \E user \in Users : leave_log(user)

\* the booking workflow with its listings; room requests are for the ranges
\* of length one on the dates LogDates
NextBookingLists ==
    \/ ListRequestRoom \/ CoordinatorAction \/ HodAction
    \/ CoordinatorRequests \/ HodRequests \/ RoomBookingLog

SpecBookingLists == Init /\ [][NextBookingLists]_vars

\* the leave workflow with its listings
NextLeaveLists == NextLeave \/ CoordinatorLeaveRequests \/ LeaveLog

SpecLeaveLists == Init /\ [][NextLeaveLists]_vars

\* both workflows with the two approved logs; the tables hold at most
\* MaxRecords rows between them, room requests are a teacher's, for the
\* ranges of length one on the dates LogDates, and leaves are for one day
LogRequestRoom ==
    /\ \E booking_date \in LogDates, start_time \in StartTimes :
           request_room("tch", 1, booking_date, start_time, start_time + 1)
    /\ Len(bookings') + Len(leaves) <= MaxRecords

LogApplyLeave ==
    /\ apply_leave("stuA", 1, 1)
    /\ Len(bookings) + Len(leaves') <= MaxRecords

NextLogs ==
    \/ LogRequestRoom \/ CoordinatorAction \/ HodAction
    \/ LogApplyLeave \/ CoordinatorLeaveAction \/ Tick
    \/ RoomBookingLog \/ LeaveLog

SpecLogs == Init /\ [][NextLogs]_vars

\* ------------------------------------------------------------------------
\* Teacher registration
\* ------------------------------------------------------------------------
\* the choices of the Teacher fields
COURSE_CHOICES == {"MCA", "MMS"}
SEMESTER_CHOICES == 1 .. 4
DIVISION_CHOICES == {"A", "B", "C"}

\* Python's bool() and `not x` on a request value: None and the empty string
\* are false, every other string is true ("false" included)
truthy(value) == value \notin {None, ""}

\* Teacher(...) as register_teacher builds it from request.data
TeacherRow(hod_flag, hod_course, coordinator_flag, coordinator_course, coordinator_semester, coordinator_division) ==
    [ is_batch_coordinator |-> truthy(coordinator_flag),
      coordinator_course |-> coordinator_course,
      coordinator_semester |-> coordinator_semester,
      coordinator_division |-> coordinator_division,
      is_hod |-> truthy(hod_flag), hod_course |-> hod_course ]

\* Model.clean_fields on the scoped fields: TRUE when it raises; a blank
\* value of a blank=True field is not validated, any other must be a choice
Teacher_clean_fields_raises(teacher) ==
    \/ truthy(teacher.hod_course) /\ teacher.hod_course \notin COURSE_CHOICES
    \/ truthy(teacher.coordinator_course) /\ teacher.coordinator_course \notin COURSE_CHOICES
    \/ truthy(teacher.coordinator_division)
           /\ teacher.coordinator_division \notin DIVISION_CHOICES
    \/ teacher.coordinator_semester # NoSemester
           /\ teacher.coordinator_semester \notin SEMESTER_CHOICES

\* Teacher.clean with the batch coordinator rules only
Teacher_clean_raises_coordinator_only(teacher) ==
    IF teacher.is_batch_coordinator
    THEN \/ ~truthy(teacher.coordinator_course)
         \/ teacher.coordinator_semester = NoSemester
         \/ ~truthy(teacher.coordinator_division)
    ELSE \/ truthy(teacher.coordinator_course)
         \/ teacher.coordinator_semester # NoSemester
         \/ truthy(teacher.coordinator_division)

\* Teacher.clean: TRUE when it raises
Teacher_clean_raises(teacher) ==
    \/ IF teacher.is_batch_coordinator
       THEN \/ ~truthy(teacher.coordinator_course)
            \/ teacher.coordinator_semester = NoSemester
            \/ ~truthy(teacher.coordinator_division)
       ELSE \/ truthy(teacher.coordinator_course)
            \/ teacher.coordinator_semester # NoSemester
            \/ truthy(teacher.coordinator_division)
    \/ teacher.is_hod /\ ~truthy(teacher.hod_course)
    \/ ~teacher.is_hod /\ truthy(teacher.hod_course)

\* register_teacher, the whole handler, as the Response it returns and the
\* User and Teacher tables it leaves: the User row is created before the
\* Teacher row is validated
register_teacher_result(actor, username, hod_flag, hod_course, coordinator_flag, coordinator_course, coordinator_semester, coordinator_division) ==
    IF User[actor].role # "admin"
    THEN [ resp |-> Response(403, "Only admin allowed"), User |-> User, Teacher |-> Teacher ]
    ELSE IF username \in DOMAIN User
    THEN [ resp |-> Response(400, "Username is already taken"),
           User |-> User, Teacher |-> Teacher ]
    ELSE LET created == User @@ (username :> [role |-> "teacher"])
             teacher == TeacherRow(hod_flag, hod_course, coordinator_flag,
                                   coordinator_course, coordinator_semester,
                                   coordinator_division)
         IN  IF Teacher_clean_fields_raises(teacher) \/ Teacher_clean_raises(teacher)
             THEN [ resp |-> Response(400, "ValidationError"),
                    User |-> created, Teacher |-> Teacher ]
             ELSE [ resp |-> Response(201, "Teacher registered"),
                    User |-> created, Teacher |-> Teacher @@ (username :> teacher) ]

\* a request handled by register_teacher
register_teacher(actor, username, hod_flag, hod_course, coordinator_flag, coordinator_course, coordinator_semester, coordinator_division) ==
    LET result == register_teacher_result(actor, username, hod_flag, hod_course,
                      coordinator_flag, coordinator_course,
                      coordinator_semester, coordinator_division)
    IN  /\ resp' = result.resp
        /\ User' = result.User
        /\ Teacher' = result.Teacher
        /\ UNCHANGED <<students, divisions, bookings, leaves, clock, inflight, requests>>

\* manage_teacher, the whole handler, as the Response it returns and the
\* tables it leaves: PUT saves the unscoped fields (qualification, department,
\* position, experience_years, phone) without full_clean, DELETE deletes the
\* Teacher row and its User row, and with the user (on_delete=CASCADE) the
\* bookings the user requested
manage_teacher_result(actor, teacher_id, method) ==
    IF User[actor].role # "admin"
    THEN [ resp |-> Response(403, "Only admin allowed"),
           User |-> User, Teacher |-> Teacher, bookings |-> bookings ]
    ELSE IF teacher_id \notin DOMAIN Teacher
    THEN [ resp |-> Response(404, "Teacher not found"),
           User |-> User, Teacher |-> Teacher, bookings |-> bookings ]
    ELSE IF method = "PUT"
    THEN [ resp |-> Response(200, "Teacher updated successfully"),
           User |-> User, Teacher |-> Teacher, bookings |-> bookings ]
    ELSE [ resp |-> Response(200, "Teacher deleted successfully"),
           User |-> [u \in DOMAIN User \ {teacher_id} |-> User[u]],
           Teacher |-> [u \in DOMAIN Teacher \ {teacher_id} |-> Teacher[u]],
           bookings |-> SelectSeq(bookings, LAMBDA b : b.requested_by # teacher_id) ]

\* a request handled by manage_teacher
manage_teacher(actor, teacher_id, method) ==
    LET result == manage_teacher_result(actor, teacher_id, method)
    IN  /\ resp' = result.resp
        /\ User' = result.User
        /\ Teacher' = result.Teacher
        /\ bookings' = result.bookings
        /\ UNCHANGED <<students, divisions, leaves, clock, inflight, requests>>

\* the values the registration requests carry: usernames taken and free,
\* flags absent or sent as form strings, courses absent, blank, valid and not
\* a choice, semesters absent, valid and not a choice
Usernames == {"tchA", "tchC", "tchD"}
FlagInputs == {None, "true", "false"}
HodCourseInputs == {None, "", "MCA", "BCA"}
CourseInputs == {None, "MCA"}
SemesterInputs == {NoSemester, 1, 5}
DivisionInputs == {None, "A"}
Methods == {"PUT", "DELETE"}

RegisterTeacher ==
    \E actor \in {"admin", "tch"}, username \in Usernames,
       hod_flag \in FlagInputs, hod_course \in HodCourseInputs,
       coordinator_flag \in FlagInputs, coordinator_course \in CourseInputs,
       coordinator_semester \in SemesterInputs, coordinator_division \in DivisionInputs :
        register_teacher(actor, username, hod_flag, hod_course, coordinator_flag,
                         coordinator_course, coordinator_semester, coordinator_division)

ManageTeacher ==
    \E actor \in {"admin", "tch"}, teacher_id \in Usernames, method \in Methods :
        manage_teacher(actor, teacher_id, method)

NextRegister == RegisterTeacher \/ ManageTeacher

SpecRegister == Init /\ [][NextRegister]_vars

\* ------------------------------------------------------------------------
\* Registration of students
\* ------------------------------------------------------------------------

\* Student(user=, roll_number=, course=, division=): semester takes its
\* default
StudentRow(roll_number, course, division) ==
    [roll_number |-> roll_number, course |-> course, semester |-> 1, division |-> division]

\* Model.clean_fields on Student.course: TRUE when it raises
Student_clean_fields_raises(student) == student.course \notin COURSE_CHOICES

\* Student.clean: TRUE when it raises
Student_clean_raises(student) ==
    \/ student.semester # 1
    \/ Division[student.division].course # student.course
    \/ Division[student.division].semester # 1

\* the id of the Division row with these fields
Division_id(course, semester, division) ==
    CHOOSE d \in DOMAIN Division : Division[d] = [course |-> course, semester |-> semester,
                                                  division |-> division]

\* register_student, the whole handler, as the Response it returns and the
\* tables it leaves: the Division row is got or created and the User row is
\* created before the Student row is validated
register_student_result(actor, username, roll_number, course, division) ==
    IF User[actor].role # "admin"
    THEN [ resp |-> Response(403, "Only admin allowed"),
           User |-> User, students |-> students, divisions |-> divisions ]
    ELSE IF username \in DOMAIN User
    THEN [ resp |-> Response(400, "Username is already taken"),
           User |-> User, students |-> students, divisions |-> divisions ]
    ELSE IF \E u \in DOMAIN students : students[u].roll_number = roll_number
    THEN [ resp |-> Response(400, "Roll number already exists"),
           User |-> User, students |-> students, divisions |-> divisions ]
    ELSE LET division_id == Division_id(course, 1, division)
             got_or_created == divisions \cup {division_id}
             created == User @@ (username :> [role |-> "student"])
             student == StudentRow(roll_number, course, division_id)
         IN  IF Student_clean_fields_raises(student) \/ Student_clean_raises(student)
             THEN [ resp |-> Response(400, "ValidationError"),
                    User |-> created, students |-> students, divisions |-> got_or_created ]
             ELSE [ resp |-> Response(201, "Student enrolled successfully"),
                    User |-> created, students |-> students @@ (username :> student),
                    divisions |-> got_or_created ]

\* a request handled by register_student
register_student(actor, username, roll_number, course, division) ==
    LET result == register_student_result(actor, username, roll_number, course, division)
    IN  /\ resp' = result.resp
        /\ User' = result.User
        /\ students' = result.students
        /\ divisions' = result.divisions
        /\ UNCHANGED <<Teacher, bookings, leaves, clock, inflight, requests>>

StudentUsernames == {"stuA", "stuC", "tchC"}
RollNumbers == {"R1", "R2"}
StudentCourseInputs == {"MCA", "BCA"}

RegisterStudent ==
    \E actor \in {"admin", "tch"}, username \in StudentUsernames,
       roll_number \in RollNumbers, course \in StudentCourseInputs :
        register_student(actor, username, roll_number, course, "A")

\* register_teacher for teachers that are no batch coordinators
AccountsRegisterTeacher ==
    \E actor \in {"admin", "tch"}, username \in Usernames,
       hod_flag \in FlagInputs, hod_course \in HodCourseInputs :
        register_teacher(actor, username, hod_flag, hod_course,
                         None, None, NoSemester, None)

\* the registration of teachers and of students, and manage_teacher
NextAccounts == AccountsRegisterTeacher \/ RegisterStudent \/ ManageTeacher

SpecAccounts == Init /\ [][NextAccounts]_vars

\* ------------------------------------------------------------------------
\* Promotion: the admin action promote_students
\* ------------------------------------------------------------------------

\* Division.objects.get(course=, semester=, division=): the ids of the rows
\* found; unique_together leaves at most one
Division_get(course, semester, division) ==
    { d \in divisions : /\ Division[d].course = course
                        /\ Division[d].semester = semester
                        /\ Division[d].division = division }

\* one pass of the loop of promote_students: the Student row it leaves
promote_student(student) ==
    IF student.semester >= 4
    THEN student
    ELSE LET next_semester == student.semester + 1
             next_division == Division_get(student.course, next_semester,
                                           Division[student.division].division)
         IN  IF next_division = {}
             THEN student
             ELSE [student EXCEPT !.semester = next_semester,
                                  !.division = CHOOSE d \in next_division : TRUE]

\* promote_students on the selected Student rows
promote_students(queryset) ==
    /\ students' = [ u \in DOMAIN students |->
                       IF u \in queryset THEN promote_student(students[u])
                                         ELSE students[u] ]
    /\ UNCHANGED <<User, Teacher, divisions, bookings, leaves, clock, resp, inflight, requests>>

PromoteStudents == \E queryset \in SUBSET (DOMAIN students) : promote_students(queryset)

\* a database in which the next semester's division exists and has its own
\* batch coordinator, tchC
InitPromote ==
    /\ User = InitialUser @@ ("tchC" :> [role |-> "teacher"])
    /\ Teacher = InitialTeacher @@ ("tchC" :> TeacherRow(None, None, "true", "MCA", 2, "A"))
    /\ students = InitialStudents
    /\ divisions = InitialDivisions \cup {"MCA2A"}
    /\ bookings = <<>>
    /\ leaves = <<>>
    /\ clock = 0
    /\ resp = Response(0, None)
    /\ inflight = [w \in Workers |-> Idle]
    /\ requests = 0

\* requests, promotion, and the leave stage of the coordinators
NextPromote ==
    \/ WorkflowRequestRoom \/ WorkflowApplyLeave \/ PromoteStudents
    \/ CoordinatorLeaveRequests \/ CoordinatorLeaveAction

SpecPromote == InitPromote /\ [][NextPromote]_vars

\* ------------------------------------------------------------------------
\* Vocabulary of the claims
\* ------------------------------------------------------------------------
\* the error kinds of the specification, read off a Response
IsAuthorization(r) == r.status = 403
IsNotFound(r) == r.status = 404
IsConflict(r) == r = Response(400, "Room already booked for the selected date and time")
IsInvalidAction(r) == r = Response(400, "Invalid action")
IsValidationError(r) == r = Response(400, "To date cannot be before From date.")
IsOk(r) == r.status = 200
IsInvalidRole(r) == r = Response(400, "Invalid role")
IsCreated(r) == r.status = 201


\* the actors the specification admits to the coordinator and the HOD stage
CoordinatorUser(user) == User[user].role = "teacher" /\ Teacher[user].is_batch_coordinator
HodUser(user) == User[user].role = "teacher" /\ Teacher[user].is_hod

\* the list data holds exactly the rows ids, each once
ListsExactly(data, ids) ==
    /\ Len(data) = Cardinality(ids)
    /\ { data[i] : i \in DOMAIN data } = ids

\* a Response that carries a list
IsListing(r) == r.status = 200 /\ "data" \in DOMAIN r

\* the action tokens a request may carry, a missing one included
\* (request.data.get("action") is then None)
ActionTokens == Actions \cup {None}

\* a Teacher row whose scoped authority is all or nothing: the coordinator
\* triple is set together with is_batch_coordinator and not at all without
\* it, hod_course is set iff is_hod (a blank string is not a set value)
AllOrNothing(teacher) ==
    /\ teacher.is_batch_coordinator =>
          /\ teacher.coordinator_course \notin {None, ""}
          /\ teacher.coordinator_semester # NoSemester
          /\ teacher.coordinator_division \notin {None, ""}
    /\ ~teacher.is_batch_coordinator =>
          /\ teacher.coordinator_course \in {None, ""}
          /\ teacher.coordinator_semester = NoSemester
          /\ teacher.coordinator_division \in {None, ""}
    /\ teacher.is_hod <=> teacher.hod_course \notin {None, ""}

\* the transition table of the booking workflow: <<from, stage, action, to>>
TransitionTable ==
    { <<"PENDING_COORDINATOR", "coordinator", "approve", "PENDING_HOD">>,
      <<"PENDING_COORDINATOR", "coordinator", "reject", "REJECTED">>,
      <<"PENDING_HOD", "hod", "approve", "APPROVED">>,
      <<"PENDING_HOD", "hod", "reject", "REJECTED">> }

\* half-open overlap of [s1, e1) and [s2, e2)
Overlap(s1, e1, s2, e2) == s1 < e2 /\ e1 > s2

\* some APPROVED booking of the room and date overlaps [start_time, end_time)
ApprovedOverlap(room, booking_date, start_time, end_time) ==
    \E i \in DOMAIN bookings :
        /\ bookings[i].status = "APPROVED"
        /\ bookings[i].room = room
        /\ bookings[i].booking_date = booking_date
        /\ Overlap(start_time, end_time, bookings[i].start_time, bookings[i].end_time)

\* the coordinator's triple is the triple of the division
SameTriple(user, division) ==
    /\ Teacher[user].coordinator_course = Division[division].course
    /\ Teacher[user].coordinator_semester = Division[division].semester
    /\ Teacher[user].coordinator_division = Division[division].division

\* ------------------------------------------------------------------------
\* Claims
\* ------------------------------------------------------------------------
\* C1: every change of a booking's status is one of the four edges of the
\* transition table, made by the stage and action of that edge (coordinator
\* approve/reject from PENDING_COORDINATOR, HOD approve/reject from
\* PENDING_HOD); a decide call from any other combination changes nothing.
C1_StatusFollowsTable ==
    [][ \A id \in DOMAIN bookings :
          bookings'[id] # bookings[id] =>
            \E user \in Users, action \in Actions :
              \/ /\ coordinator_action(user, id, action)
                 /\ <<bookings[id].status, "coordinator", action, bookings'[id].status>>
                        \in TransitionTable
              \/ /\ hod_action(user, id, action)
                 /\ <<bookings[id].status, "hod", action, bookings'[id].status>>
                        \in TransitionTable ]_vars

\* C2: APPROVED and REJECTED are terminal: once a booking is APPROVED or
\* REJECTED no later step changes its status, coordinator_approved or
\* hod_approved.
C2_TerminalStates ==
    [][ \A id \in DOMAIN bookings :
          bookings[id].status \in {"APPROVED", "REJECTED"} =>
            /\ bookings'[id].status = bookings[id].status
            /\ bookings'[id].coordinator_approved = bookings[id].coordinator_approved
            /\ bookings'[id].hod_approved = bookings[id].hod_approved ]_vars

\* C3: a student-originated booking (division present) that is APPROVED has
\* coordinator_approved = TRUE: the batch coordinator approved it first.
C3_ApprovedAfterCoordinator ==
    \A id \in DOMAIN bookings :
        (bookings[id].division # None /\ bookings[id].status = "APPROVED")
            => bookings[id].coordinator_approved

\* C4: no two distinct APPROVED bookings of the same room and booking_date
\* have overlapping half-open intervals.
C4_NoOverlappingApproved ==
    \A i, j \in DOMAIN bookings :
        ( /\ i # j
          /\ bookings[i].status = "APPROVED"
          /\ bookings[j].status = "APPROVED"
          /\ bookings[i].room = bookings[j].room
          /\ bookings[i].booking_date = bookings[j].booking_date )
        => ~Overlap(bookings[i].start_time, bookings[i].end_time,
                    bookings[j].start_time, bookings[j].end_time)

\* C5: request_room by a student or teacher for an existing room answers
\* Conflict, and creates no booking, exactly when an APPROVED booking of the
\* same room and date overlaps the requested half-open interval; otherwise
\* (pending and rejected bookings, and approved ones that only touch the
\* interval at an end point, do not block) it creates the booking.
C5_ConflictIffApprovedOverlap ==
    \A user \in Requesters, room_id \in Room, booking_date \in Dates,
       start_time \in StartTimes, end_time \in Times :
        User[user].role \in {"student", "teacher"} =>
            LET result == request_room_result(user, room_id, booking_date,
                                              start_time, end_time)
            IN  IF ApprovedOverlap(room_id, booking_date, start_time, end_time)
                THEN IsConflict(result.resp) /\ result.bookings = bookings
                ELSE /\ IsCreated(result.resp)
                     /\ Len(result.bookings) = Len(bookings) + 1
                     /\ SubSeq(result.bookings, 1, Len(bookings)) = bookings
                     /\ LET new == result.bookings[Len(result.bookings)]
                        IN  /\ new.room = room_id
                            /\ new.booking_date = booking_date
                            /\ new.start_time = start_time
                            /\ new.end_time = end_time
                            /\ new.requested_by = user

\* C5 witness: a request was refused with Conflict while an APPROVED booking
\* stands next to a later booking that starts exactly when it ends.
C5_Witness ==
    /\ IsConflict(resp)
    /\ \E i, j \in DOMAIN bookings :
        /\ bookings[i].status = "APPROVED"
        /\ bookings[j].room = bookings[i].room
        /\ bookings[j].booking_date = bookings[i].booking_date
        /\ bookings[j].start_time = bookings[i].end_time
        /\ bookings[j].end_time > bookings[j].start_time

\* C6: between the clash check of request_room and its insert, no booking
\* that overlaps the request (same room and date) is APPROVED: a worker that
\* has passed the check still has no clash when it creates its booking.
C6_CheckInsertAtomic ==
    \A w \in Workers :
        inflight[w].pc = "create" =>
            ~clash_exists(bookings, inflight[w].room, inflight[w].booking_date,
                          inflight[w].start_time, inflight[w].end_time)

\* C7: decide operations are serialized per record: a decide call writes the
\* row it read, so the row is never decided twice and a later write never
\* overwrites an earlier decision.
C7_DecideSerialized ==
    [][ \A w \in Workers :
          /\ booking_save(w) => bookings[inflight[w].id] = inflight[w].read
          /\ leave_save(w) => leaves[inflight[w].id] = inflight[w].read ]_vars

\* C8: coordinator_action by a batch coordinator whose triple differs from
\* the triple of the booking's division answers Authorization and leaves the
\* booking unchanged.
C8_CoordinatorScoped ==
    [][ \A user \in Users, id \in DOMAIN bookings, action \in Actions :
          ( /\ coordinator_action(user, id, action)
            /\ is_coordinator(user)
            /\ bookings[id].division # None
            /\ ~SameTriple(user, bookings[id].division) )
          => IsAuthorization(resp') /\ bookings' = bookings ]_vars

\* C9: hod_action on a student-originated booking by an HOD whose hod_course
\* is not the course of the booking's division answers Authorization and
\* leaves the booking unchanged.
C9_HodScoped ==
    [][ \A user \in Users, id \in DOMAIN bookings, action \in Actions :
          ( /\ hod_action(user, id, action)
            /\ is_hod(user)
            /\ bookings[id].division # None
            /\ Teacher[user].hod_course # Division[bookings[id].division].course )
          => IsAuthorization(resp') /\ bookings' = bookings ]_vars

\* C10: coordinator_leave_action by a coordinator whose triple is not the
\* triple of the leave's division answers Authorization and leaves the
\* leave's status, coordinator_remark and decision_at unchanged.
C10_LeaveCoordinatorScoped ==
    [][ \A user \in Users, id \in DOMAIN leaves, action \in Actions, remark \in Remarks :
          ( /\ coordinator_leave_action(user, id, action, remark)
            /\ is_coordinator(user)
            /\ ~SameTriple(user, leaves[id].division) )
          => IsAuthorization(resp') /\ leaves' = leaves ]_vars

\* C11: a leave is decided exactly once: once a leave's status is not
\* PENDING, no request changes its status, coordinator_remark or decision_at
\* (a coordinator_leave_action on it is refused as an invalid transition).
C11_LeaveDecidedOnce ==
    [][ \A id \in DOMAIN leaves :
          leaves[id].status # "PENDING" =>
            /\ leaves'[id].status = leaves[id].status
            /\ leaves'[id].coordinator_remark = leaves[id].coordinator_remark
            /\ leaves'[id].decision_at = leaves[id].decision_at ]_vars

\* C12: in every reachable state a leave's decision_at is set iff its status
\* is not PENDING; a coordinator_leave_action that succeeds sets status,
\* coordinator_remark and decision_at of the leave together in its one save,
\* and one that does not succeed sets none of them.
C12_DecisionAtIffDecided ==
    /\ \A id \in DOMAIN leaves :
         (leaves[id].decision_at # NoTime) <=> (leaves[id].status # "PENDING")
    /\ \A user \in Users, leave_id \in LeaveIds, action \in Actions, remark \in Remarks :
         LET result == coordinator_leave_action_result(user, leave_id, action, remark)
         IN  IF IsOk(result.resp)
             THEN /\ leave_id \in DOMAIN leaves
                  /\ result.leaves[leave_id].status \in {"APPROVED", "REJECTED"}
                  /\ result.leaves[leave_id].coordinator_remark = remark
                  /\ result.leaves[leave_id].decision_at = clock
             ELSE result.leaves = leaves

\* C12 witness: after a successful decision one leave is decided with its
\* remark and a decision_at read off the advanced clock, another is PENDING
\* with a NULL decision_at.
C12_Witness ==
    /\ resp = Response(200, "Leave decision recorded")
    /\ \E i \in DOMAIN leaves, j \in DOMAIN leaves :
         /\ leaves[i].status = "APPROVED"
         /\ leaves[i].coordinator_remark = "ok"
         /\ leaves[i].decision_at = clock
         /\ clock > 0
         /\ leaves[j].status = "PENDING"
         /\ leaves[j].decision_at = NoTime

\* C13: apply_leave by a student with to_date < from_date answers
\* ValidationError and stores no leave; with to_date >= from_date (equal
\* dates included) it succeeds and stores the leave; every stored leave has
\* to_date >= from_date.
C13_LeaveDatesOrdered ==
    /\ \A id \in DOMAIN leaves : leaves[id].to_date >= leaves[id].from_date
    /\ \A user \in Users, from_date \in Days, to_date \in Days :
         User[user].role = "student" =>
           LET result == apply_leave_result(user, from_date, to_date)
           IN  IF to_date < from_date
               THEN IsValidationError(result.resp) /\ result.leaves = leaves
               ELSE /\ IsCreated(result.resp)
                    /\ Len(result.leaves) = Len(leaves) + 1
                    /\ SubSeq(result.leaves, 1, Len(leaves)) = leaves
                    /\ result.leaves[Len(result.leaves)].student = user
                    /\ result.leaves[Len(result.leaves)].from_date = from_date
                    /\ result.leaves[Len(result.leaves)].to_date = to_date

\* C13 witness: a one-day leave (to_date = from_date) is stored and the last
\* request, an apply_leave with to_date < from_date, was refused.
C13_Witness ==
    /\ IsValidationError(resp)
    /\ \E id \in DOMAIN leaves : leaves[id].to_date = leaves[id].from_date
    /\ \E id \in DOMAIN leaves : leaves[id].to_date > leaves[id].from_date

\* C14: every leave apply_leave creates starts with status PENDING, a NULL
\* decision_at, and the division the applying student has when applying.
C14_LeaveStartsPending ==
    \A user \in Users, from_date \in Days, to_date \in Days :
        LET result == apply_leave_result(user, from_date, to_date)
            leave == result.leaves[Len(result.leaves)]
        IN  IsCreated(result.resp) =>
              /\ Len(result.leaves) = Len(leaves) + 1
              /\ leave.student = user
              /\ leave.status = "PENDING"
              /\ leave.decision_at = NoTime
              /\ leave.division = students[user].division

\* C14 witness: apply_leave has just stored a leave, which is PENDING with a
\* NULL decision_at and the student's division.
C14_Witness ==
    /\ resp = Response(201, "Leave request sent to Batch Coordinator")
    /\ Len(leaves) > 0
    /\ leaves[Len(leaves)].status = "PENDING"
    /\ leaves[Len(leaves)].decision_at = NoTime
    /\ leaves[Len(leaves)].division = students[leaves[Len(leaves)].student].division

\* C15: every booking request_room creates starts PENDING_COORDINATOR when
\* the requester is a student and PENDING_HOD when a teacher, with
\* coordinator_approved and hod_approved false; a booking requested by a
\* teacher is never PENDING_COORDINATOR.
C15_InitialStatusByRole ==
    /\ \A id \in DOMAIN bookings :
         User[bookings[id].requested_by].role = "teacher"
             => bookings[id].status # "PENDING_COORDINATOR"
    /\ \A user \in Requesters, room_id \in RoomIds, booking_date \in Dates,
          start_time \in StartTimes, end_time \in Times :
         LET result == request_room_result(user, room_id, booking_date, start_time, end_time)
             booking == result.bookings[Len(result.bookings)]
         IN  IsCreated(result.resp) =>
               /\ Len(result.bookings) = Len(bookings) + 1
               /\ booking.requested_by = user
               /\ User[user].role \in {"student", "teacher"}
               /\ User[user].role = "student" => booking.status = "PENDING_COORDINATOR"
               /\ User[user].role = "teacher" => booking.status = "PENDING_HOD"
               /\ ~booking.coordinator_approved
               /\ ~booking.hod_approved

\* C15 witness: request_room has just stored a teacher's booking, PENDING_HOD
\* with both flags false, next to a student's booking that is
\* PENDING_COORDINATOR.
C15_Witness ==
    /\ resp = Response(201, "Room request sent to HOD")
    /\ Len(bookings) = 2
    /\ User[bookings[2].requested_by].role = "teacher"
    /\ bookings[2].status = "PENDING_HOD"
    /\ ~bookings[2].coordinator_approved /\ ~bookings[2].hod_approved
    /\ User[bookings[1].requested_by].role = "student"
    /\ bookings[1].status = "PENDING_COORDINATOR"

\* C16: a booking has a division iff its requester is a student; request_room
\* gives a student's booking the student's division and a teacher's booking
\* none; request_room, coordinator_action and hod_action never change the
\* division of a stored booking.
C16_DivisionIffStudent ==
    /\ \A id \in DOMAIN bookings :
         (bookings[id].division # None)
             <=> (User[bookings[id].requested_by].role = "student")
    /\ \A user \in Requesters, room_id \in RoomIds, booking_date \in Dates,
          start_time \in StartTimes, end_time \in Times :
         LET result == request_room_result(user, room_id, booking_date, start_time, end_time)
             booking == result.bookings[Len(result.bookings)]
         IN  /\ \A id \in DOMAIN bookings :
                  result.bookings[id].division = bookings[id].division
             /\ IsCreated(result.resp) =>
                  booking.division = IF User[user].role = "student"
                                     THEN students[user].division
                                     ELSE None
    /\ \A user \in Users, booking_id \in BookingIds, action \in Actions :
         \A id \in DOMAIN bookings :
            /\ coordinator_action_result(user, booking_id, action).bookings[id].division
                   = bookings[id].division
            /\ hod_action_result(user, booking_id, action).bookings[id].division
                   = bookings[id].division

\* C16 witness: a student's booking, decided by coordinator and HOD, still
\* carries the student's division, and a teacher's booking, decided by the
\* HOD, has none.
C16_Witness ==
    \E i \in DOMAIN bookings, j \in DOMAIN bookings :
        /\ User[bookings[i].requested_by].role = "student"
        /\ bookings[i].division = students[bookings[i].requested_by].division
        /\ bookings[i].status = "APPROVED"
        /\ User[bookings[j].requested_by].role = "teacher"
        /\ bookings[j].division = None
        /\ bookings[j].status = "REJECTED"

\* C17: every stored booking has end_time > start_time (a request_room with
\* end_time <= start_time stores no booking).
C17_EndAfterStart ==
    \A id \in DOMAIN bookings : bookings[id].end_time > bookings[id].start_time

\* C18: request_room by a user whose role is neither student nor teacher is
\* refused for lack of the role (Authorization; the handler's "Invalid role"
\* answer is counted as such) and creates no booking, for every existing room
\* and every time range, also when the range overlaps an APPROVED booking.
C18_NonRequesterRefused ==
    \A user \in Requesters, room_id \in Room, booking_date \in Dates,
       start_time \in StartTimes, end_time \in Times :
        User[user].role \notin {"student", "teacher"} =>
            LET result == request_room_result(user, room_id, booking_date, start_time, end_time)
            IN  /\ IsAuthorization(result.resp) \/ IsInvalidRole(result.resp)
                /\ result.bookings = bookings

\* C20: for a booking without a division in PENDING_HOD, hod_action by every
\* teacher with is_hod, whatever the hod_course, succeeds: approve makes it
\* APPROVED with hod_approved true, reject makes it REJECTED, and nothing
\* else changes.
C20_TeacherBookingAnyHod ==
    \A user \in Users, id \in DOMAIN bookings :
        ( /\ is_hod(user)
          /\ bookings[id].division = None
          /\ bookings[id].status = "PENDING_HOD" ) =>
            LET approve == hod_action_result(user, id, "approve")
                reject == hod_action_result(user, id, "reject")
            IN  /\ IsOk(approve.resp)
                /\ approve.bookings = [bookings EXCEPT ![id].status = "APPROVED",
                                                       ![id].hod_approved = TRUE]
                /\ IsOk(reject.resp)
                /\ reject.bookings = [bookings EXCEPT ![id].status = "REJECTED"]

\* C20 witness: hod_action has just approved a teacher's booking, which has
\* no division and is APPROVED with hod_approved true, while another
\* teacher's booking was rejected.
C20_Witness ==
    /\ resp = Response(200, "Final decision recorded")
    /\ \E i \in DOMAIN bookings, j \in DOMAIN bookings :
         /\ User[bookings[i].requested_by].role = "teacher"
         /\ bookings[i].division = None
         /\ bookings[i].status = "APPROVED"
         /\ bookings[i].hod_approved
         /\ ~bookings[i].coordinator_approved
         /\ User[bookings[j].requested_by].role = "teacher"
         /\ bookings[j].division = None
         /\ bookings[j].status = "REJECTED"

C21_PendingBookingListsScoped ==
    \A user \in Users :
        /\ CoordinatorUser(user) =>
             /\ coordinator_requests_results(user) # {}
             /\ \A r \in coordinator_requests_results(user) :
                  /\ IsListing(r)
                  /\ ListsExactly(r.data,
                       { id \in DOMAIN bookings :
                           /\ bookings[id].status = "PENDING_COORDINATOR"
                           /\ bookings[id].division # None
                           /\ SameTriple(user, bookings[id].division) })
        /\ HodUser(user) =>
             /\ hod_requests_results(user) # {}
             /\ \A r \in hod_requests_results(user) :
                  /\ IsListing(r)
                  /\ ListsExactly(r.data,
                       { id \in DOMAIN bookings :
                           /\ bookings[id].status = "PENDING_HOD"
                           /\ \/ bookings[id].division = None
                              \/ Division[bookings[id].division].course
                                     = Teacher[user].hod_course })

\* C21 witness: a pending list has just returned one booking, a student's
\* awaiting the coordinator, while the other booking, a teacher's, awaits
\* the HOD.
C21_Witness ==
    /\ IsListing(resp)
    /\ Len(resp.data) = 1
    /\ Len(bookings) = 2
    /\ bookings[resp.data[1]].status = "PENDING_COORDINATOR"
    /\ bookings[resp.data[1]].division = "MCA1A"
    /\ \E id \in DOMAIN bookings :
         bookings[id].status = "PENDING_HOD" /\ bookings[id].division = None

\* C22: coordinator_leave_requests returns to a batch coordinator exactly
\* the leaves in PENDING whose division has the coordinator's triple; a
\* decided leave or a leave of another division is not returned.
C22_PendingLeaveListScoped ==
    \A user \in Users :
        CoordinatorUser(user) =>
            /\ coordinator_leave_requests_results(user) # {}
            /\ \A r \in coordinator_leave_requests_results(user) :
                 /\ IsListing(r)
                 /\ ListsExactly(r.data,
                      { id \in DOMAIN leaves :
                          /\ leaves[id].status = "PENDING"
                          /\ SameTriple(user, leaves[id].division) })

\* C22 witness: the pending leave list has just returned the one PENDING
\* leave while the other leave is decided.
C22_Witness ==
    /\ IsListing(resp)
    /\ Len(resp.data) = 1
    /\ Len(leaves) = 2
    /\ leaves[resp.data[1]].status = "PENDING"
    /\ \E id \in DOMAIN leaves : leaves[id].status = "APPROVED"

\* C23: room_booking_log returns to every user exactly the APPROVED
\* bookings, in ascending order of (booking_date, start_time); leave_log
\* returns to a coordinator or HOD exactly the APPROVED leaves, in descending
\* order of decision_at.
C23_ApprovedLogs ==
    \A user \in Users :
        /\ room_booking_log_results(user) # {}
        /\ \A r \in room_booking_log_results(user) :
             /\ IsListing(r)
             /\ ListsExactly(r.data,
                  { id \in DOMAIN bookings : bookings[id].status = "APPROVED" })
             /\ \A i \in DOMAIN r.data, j \in DOMAIN r.data :
                  i < j =>
                    \/ bookings[r.data[i]].booking_date < bookings[r.data[j]].booking_date
                    \/ /\ bookings[r.data[i]].booking_date = bookings[r.data[j]].booking_date
                       /\ bookings[r.data[i]].start_time <= bookings[r.data[j]].start_time
        /\ (CoordinatorUser(user) \/ HodUser(user)) =>
             /\ leave_log_results(user) # {}
             /\ \A r \in leave_log_results(user) :
                  /\ IsListing(r)
                  /\ ListsExactly(r.data,
                       { id \in DOMAIN leaves : leaves[id].status = "APPROVED" })
                  /\ \A i \in DOMAIN r.data, j \in DOMAIN r.data :
                       i < j => leaves[r.data[i]].decision_at >= leaves[r.data[j]].decision_at

\* C23 witness: room_booking_log has just returned two APPROVED bookings,
\* the one of the earlier date first although its start_time is the later.
C23_Witness ==
    /\ IsListing(resp)
    /\ Len(resp.data) = 2
    /\ Len(bookings) = 2
    /\ bookings[resp.data[1]].status = "APPROVED"
    /\ bookings[resp.data[2]].status = "APPROVED"
    /\ bookings[resp.data[1]].booking_date < bookings[resp.data[2]].booking_date
    /\ bookings[resp.data[1]].start_time > bookings[resp.data[2]].start_time

\* C24: coordinator_action, hod_action and coordinator_leave_action, called by
\* an actor who passes the role gate on an existing record with an action
\* token other than "approve" and "reject" (a missing one included), answer
\* InvalidAction and leave the table as it was.
C24_InvalidAction ==
    \A user \in Users, action \in ActionTokens \ {"approve", "reject"} :
        /\ \A id \in DOMAIN bookings :
             /\ CoordinatorUser(user) =>
                  LET result == coordinator_action_result(user, id, action)
                  IN  IsInvalidAction(result.resp) /\ result.bookings = bookings
             /\ HodUser(user) =>
                  LET result == hod_action_result(user, id, action)
                  IN  IsInvalidAction(result.resp) /\ result.bookings = bookings
        /\ \A id \in DOMAIN leaves, remark \in Remarks :
             CoordinatorUser(user) =>
                  LET result == coordinator_leave_action_result(user, id, action, remark)
                  IN  IsInvalidAction(result.resp) /\ result.leaves = leaves

\* C24 witness: the last request was refused as an invalid action while a
\* booking awaits the HOD and a leave is PENDING.
C24_Witness ==
    /\ IsInvalidAction(resp)
    /\ \E id \in DOMAIN bookings : bookings[id].status = "PENDING_HOD"
    /\ \E id \in DOMAIN leaves : leaves[id].status = "PENDING"

\* C25: request_room with the id of no room, coordinator_action and
\* hod_action with the id of no booking, coordinator_leave_action with the id
\* of no leave, each called by an actor who passes its role gate (request_room
\* by anyone), answer NotFound and leave the table as it was.
C25_NotFound ==
    /\ \A user \in Requesters, room_id \in RoomIds \ Room, booking_date \in Dates,
          start_time \in StartTimes, end_time \in Times :
         LET result == request_room_result(user, room_id, booking_date, start_time, end_time)
         IN  IsNotFound(result.resp) /\ result.bookings = bookings
    /\ \A user \in Users, action \in ActionTokens :
         /\ \A id \in BookingIds \ DOMAIN bookings :
              /\ CoordinatorUser(user) =>
                   LET result == coordinator_action_result(user, id, action)
                   IN  IsNotFound(result.resp) /\ result.bookings = bookings
              /\ HodUser(user) =>
                   LET result == hod_action_result(user, id, action)
                   IN  IsNotFound(result.resp) /\ result.bookings = bookings
         /\ \A id \in LeaveIds \ DOMAIN leaves, remark \in Remarks :
              CoordinatorUser(user) =>
                   LET result == coordinator_leave_action_result(user, id, action, remark)
                   IN  IsNotFound(result.resp) /\ result.leaves = leaves

\* C25 witness: the last request was answered NotFound while one booking and
\* one leave exist, so that id 2 is the id of no booking and of no leave.
C25_Witness ==
    /\ IsNotFound(resp)
    /\ Len(bookings) = 1
    /\ Len(leaves) = 1

\* C26: a request that is answered with an error leaves both tables as they
\* were; a request_room or apply_leave that succeeds adds one row and changes
\* no other; a decision that succeeds changes the one row named, writing the
\* status together with the approval flag (coordinator_approved with
\* PENDING_HOD, hod_approved with APPROVED) or with coordinator_remark and
\* decision_at.
C26_NoPartialMutation ==
    /\ [] ( /\ \A user \in Users, id \in BookingIds, action \in ActionTokens :
                 /\ LET result == coordinator_action_result(user, id, action)
                    IN  IF IsOk(result.resp)
                        THEN /\ id \in DOMAIN bookings
                             /\ result.bookings = [bookings EXCEPT ![id] =
                                  IF action = "approve"
                                  THEN [@ EXCEPT !.status = "PENDING_HOD",
                                                 !.coordinator_approved = TRUE]
                                  ELSE [@ EXCEPT !.status = "REJECTED"]]
                        ELSE result.bookings = bookings
                 /\ LET result == hod_action_result(user, id, action)
                    IN  IF IsOk(result.resp)
                        THEN /\ id \in DOMAIN bookings
                             /\ result.bookings = [bookings EXCEPT ![id] =
                                  IF action = "approve"
                                  THEN [@ EXCEPT !.status = "APPROVED",
                                                 !.hod_approved = TRUE]
                                  ELSE [@ EXCEPT !.status = "REJECTED"]]
                        ELSE result.bookings = bookings
            /\ \A user \in Users, id \in LeaveIds, action \in ActionTokens,
                  remark \in Remarks :
                 LET result == coordinator_leave_action_result(user, id, action, remark)
                 IN  IF IsOk(result.resp)
                     THEN /\ id \in DOMAIN leaves
                          /\ result.leaves = [leaves EXCEPT ![id] =
                               [@ EXCEPT !.status = IF action = "approve"
                                                    THEN "APPROVED" ELSE "REJECTED",
                                         !.coordinator_remark = remark,
                                         !.decision_at = clock]]
                     ELSE result.leaves = leaves
            /\ \A user \in Requesters, room_id \in RoomIds, booking_date \in Dates,
                  start_time \in StartTimes, end_time \in Times :
                 LET result == request_room_result(user, room_id, booking_date,
                                                   start_time, end_time)
                 IN  IF IsCreated(result.resp)
                     THEN /\ Len(result.bookings) = Len(bookings) + 1
                          /\ SubSeq(result.bookings, 1, Len(bookings)) = bookings
                     ELSE result.bookings = bookings
            /\ \A user \in Users, from_date \in Days, to_date \in Days :
                 LET result == apply_leave_result(user, from_date, to_date)
                 IN  IF IsCreated(result.resp)
                     THEN /\ Len(result.leaves) = Len(leaves) + 1
                          /\ SubSeq(result.leaves, 1, Len(leaves)) = leaves
                     ELSE result.leaves = leaves )
    /\ [][ ~(IsOk(resp') \/ IsCreated(resp'))
             => bookings' = bookings /\ leaves' = leaves ]_vars

\* C26 witness: the last request failed on validation while a booking carries
\* coordinator_approved with PENDING_HOD and a leave is PENDING.
C26_Witness ==
    /\ IsValidationError(resp)
    /\ \E id \in DOMAIN bookings :
         bookings[id].status = "PENDING_HOD" /\ bookings[id].coordinator_approved
    /\ \E id \in DOMAIN leaves : leaves[id].status = "PENDING"

\* C28: in every reachable state every booking's status is one of
\* PENDING_COORDINATOR, PENDING_HOD, APPROVED, REJECTED and every leave's
\* status is one of PENDING, APPROVED, REJECTED.
C28_StatusDomain ==
    /\ \A id \in DOMAIN bookings :
         bookings[id].status \in {"PENDING_COORDINATOR", "PENDING_HOD", "APPROVED", "REJECTED"}
    /\ \A id \in DOMAIN leaves :
         leaves[id].status \in {"PENDING", "APPROVED", "REJECTED"}

\* C28 witness: a booking has been rejected and a leave approved.
C28_Witness ==
    /\ \E id \in DOMAIN bookings : bookings[id].status = "REJECTED"
    /\ \E id \in DOMAIN leaves : leaves[id].status = "APPROVED"

\* C29: a booking has hod_approved = true iff its status is APPROVED.
C29_HodFlagIffApproved ==
    \A id \in DOMAIN bookings :
        bookings[id].hod_approved <=> (bookings[id].status = "APPROVED")

\* C30: a booking without a division (a teacher's) is never changed by
\* coordinator_action, so it never carries coordinator_approved = true.
C30_TeacherBookingNotCoordinated ==
    \A id \in DOMAIN bookings :
        bookings[id].division = None => ~bookings[id].coordinator_approved

\* C27: every stored Teacher row is all-or-nothing in its scoped authority
\* (is_batch_coordinator iff course, semester and division of the coordinator
\* are all set, none of them set without it; is_hod iff hod_course is set),
\* and a register_teacher request whose row is not is answered with a
\* validation error and stores no Teacher row.
C27_TeacherAuthorityAllOrNothing ==
    /\ \A username \in DOMAIN Teacher : AllOrNothing(Teacher[username])
    /\ \A actor \in DOMAIN User, username \in Usernames,
          hod_flag \in FlagInputs, hod_course \in HodCourseInputs,
          coordinator_flag \in FlagInputs, coordinator_course \in CourseInputs,
          coordinator_semester \in SemesterInputs, coordinator_division \in DivisionInputs :
         LET result == register_teacher_result(actor, username, hod_flag, hod_course,
                           coordinator_flag, coordinator_course,
                           coordinator_semester, coordinator_division)
             teacher == TeacherRow(hod_flag, hod_course, coordinator_flag,
                                   coordinator_course, coordinator_semester,
                                   coordinator_division)
         IN  ( /\ User[actor].role = "admin"
               /\ username \notin DOMAIN User
               /\ ~AllOrNothing(teacher) ) =>
                 /\ result.resp = Response(400, "ValidationError")
                 /\ result.Teacher = Teacher

\* C27 witness: a registration was just refused by validation while a
\* registered teacher is stored as batch coordinator with the whole triple
\* and as no HOD without a hod_course.
C27_Witness ==
    /\ resp = Response(400, "ValidationError")
    /\ \E username \in DOMAIN Teacher \ DOMAIN InitialTeacher :
         /\ Teacher[username].is_batch_coordinator
         /\ Teacher[username].coordinator_course = "MCA"
         /\ Teacher[username].coordinator_semester = 1
         /\ Teacher[username].coordinator_division = "A"
         /\ ~Teacher[username].is_hod
         /\ Teacher[username].hod_course = None

\* C31: promotion does not re-route existing requests. A step of
\* promote_students changes nothing but the semester and the division of
\* Student rows, so the leaves and the bookings keep the division of their
\* submission; and a leave still PENDING whose division is no longer its
\* student's is listed for a batch coordinator exactly when that
\* coordinator's triple is the one of the leave's stored division, and a
\* decision on it is accepted from exactly those coordinators: the old
\* division's, never the new one's.
C31_PromotionKeepsRouting ==
    /\ [](\A id \in DOMAIN leaves, user \in Users :
            ( /\ leaves[id].status = "PENDING"
              /\ leaves[id].division # students[leaves[id].student].division
              /\ CoordinatorUser(user) ) =>
                /\ id \in coordinator_leave_requests_filter(user)
                       <=> SameTriple(user, leaves[id].division)
                /\ \A action \in {"approve", "reject"}, remark \in Remarks :
                       IsOk(coordinator_leave_action_result(user, id, action, remark).resp)
                           <=> SameTriple(user, leaves[id].division))
    /\ [][ students' # students =>
             /\ leaves' = leaves
             /\ bookings' = bookings
             /\ DOMAIN students' = DOMAIN students
             /\ \A u \in DOMAIN students : students'[u].course = students[u].course ]_vars


\* C32: registration is all-or-nothing. A request that is not answered 201
\* leaves no User row that was not there before it, and in every reachable
\* state each User with role teacher has a Teacher row and each User with
\* role student has a Student row.
C32_RegistrationAllOrNothing ==
    /\ [](\A username \in DOMAIN User :
            /\ User[username].role = "teacher" => username \in DOMAIN Teacher
            /\ User[username].role = "student" => username \in DOMAIN students)
    /\ [][ ~IsCreated(resp') => DOMAIN User' \subseteq DOMAIN User ]_vars

====
